---- MODULE Spec2Model ----
(***************************************************************************)
(* The wake-word turn controller of the Mira glasses assistant             *)
(* (class TranscriptionManager) as a state machine.  One controller        *)
(* instance per session; JavaScript runs each handler to completion, so    *)
(* every action below is one handler, one timer callback or one            *)
(* continuation after an await.  Time is abstracted: a pending timer may   *)
(* fire at any moment, an outstanding call may settle at any moment.       *)
(***************************************************************************)
EXTENDS Integers, Sequences, FiniteSets, Bags, TLC

\* ---------------------------------------------------------------- bounds
MaxTurns == 2        \* listening turns opened in one run
MaxCalls == 2        \* processQuery calls in flight at once
MaxPhotoRequests == 2 \* photo promises in use at once (pending, cached or awaiting purge)
MaxCueChains == 1    \* processing-cue chains with a playback outstanding at once

\* ---------------------------------------------------------------- texts
\* A text is a sequence of tokens: the wake word or an ordinary word.
W == "hey mira"
X == "what"

EventTexts == {<<W>>, <<X>>, <<W, X>>}
ReplayTexts == {<<W>>, <<W, X>>, <<X>>}
Events == [text : EventTexts, isFinal : BOOLEAN]

\* cleanedText.includes(word) for some wake word
ContainsWakeWord(text) == \E i \in DOMAIN text : text[i] = W

FirstWake(text) == CHOOSE i \in DOMAIN text :
                      text[i] = W /\ \A j \in 1..(i - 1) : text[j] # W

\* text.replace(/.*?(wake)[\s,\.!]*/i, '').trim()
removeWakeWord(text) ==
    IF ContainsWakeWord(text)
    THEN SubSeq(text, FirstWake(text) + 1, Len(text))
    ELSE text

\* /wake$/ on the normalized text
endsWithWakeWord(text) == Len(text) > 0 /\ text[Len(text)] = W

\* the settle-timer duration chosen for an event (ms)
SettleLong == 10000
SettleShort == 1500
SettleMedium == 3000
MaxListeningMs == 15000

\* the duration chosen without looking at the event
AlwaysMedium(e) == SettleMedium

TimerDuration(e) ==
    IF e.isFinal
    THEN IF endsWithWakeWord(e.text) THEN SettleLong ELSE SettleShort
    ELSE SettleMedium

\* ---------------------------------------------------------------- state
VARIABLES
    isProcessingQuery,        \* field
    isListeningToQuery,       \* field
    timeoutId,                \* field: 0 = undefined, Fired = handle of a timer that ran
    maxListeningTimeoutId,    \* field, as timeoutId
    transcriptionStartTime,   \* field: 0, or the turn in which it was set
    settleTimers,             \* pending settle timers [id, dur, turn, atEntry]
    maxTimers,                \* pending max-listening timers [id, turn]
    cooldownTimers,           \* number of pending cooldown timers
    calls,                    \* bag of the processQuery calls in flight
    transcriptProcessor,      \* live display buffer
    display,                  \* the text the last handler sent to showTextWall
    activePhotos,             \* the session's entry of the activePhotos map
    photoRequests,            \* camera.requestPhoto promises not yet settled
    photoPurgeTimers,         \* pending 30 s purge timers, by promise
    locationLookups,          \* getLatestLocation promises not yet settled
    locationContext,          \* what the agent was last given as location
    wake_requires_head_up,    \* setting
    lastHeadPosition,         \* field
    headWakeWindowUntilMs,    \* field, relative to now: zero, open or elapsed
    headWindowTimeoutId,      \* field, as timeoutId
    headWindowTimers,         \* pending head-window expiry timers [id]
    transcriptionUnsubscribe, \* field: 0 = undefined, else the subscription
    subscriptions,            \* active onTranscription handlers
    hasCamera,                \* session.capabilities.hasCamera
    cleanedUp,                \* onStop has run cleanup() and dropped the manager
    playsAudio,               \* settings speak_response, or the glasses have no display
    cuePromises,              \* listening-cue playAudio promises not yet settled
    cueChains,                \* processing-cue chains with a playback outstanding
    turn,                     \* number of listening turns opened so far
    agentCalls,               \* per turn: handleContext invocations started
    lastOp,                   \* the handler that ran last
    finalTexts,               \* the non-empty final texts given to processString, in order
    displayString,            \* the string the last processString call returned
    removals,                 \* a text and the results of removeWakeWord applied to it in turn
    recording,                \* the startRecording call of the voice recording service
    fresh,                    \* a processor constructed when transcriptProcessor was last
                              \* cleared, and given the same calls since
    conversation,             \* the ConversationManager and its storage file
    heard,                    \* the events given to ConversationManager.handleTranscription
    voice                     \* per user: isRecordingVoice, pipelines in flight, last result

flagVars == <<isProcessingQuery, isListeningToQuery, transcriptionStartTime>>
timerVars == <<timeoutId, maxListeningTimeoutId, settleTimers, maxTimers, cooldownTimers>>
photoVars == <<activePhotos, photoRequests, photoPurgeTimers>>
locationVars == <<locationLookups, locationContext>>
headVars == <<lastHeadPosition, headWakeWindowUntilMs, headWindowTimeoutId, headWindowTimers>>
subVars == <<transcriptionUnsubscribe, subscriptions>>
envVars == <<wake_requires_head_up, hasCamera, cleanedUp, playsAudio>>

\* the controller's state, its pending work and its environment
ctrlVars == <<flagVars, timerVars, calls, transcriptProcessor, photoVars,
              locationVars, headVars, subVars, envVars, turn, agentCalls,
              cuePromises, cueChains>>

\* the conversation manager and the voice-recording switch of the photo app
serviceVars == <<conversation, heard, voice>>

\* the functions and the services checked on their own
auxVars == <<finalTexts, displayString, removals, recording, fresh,
             conversation, heard, voice>>

\* the controller without its display buffer
controllerVars == <<flagVars, timerVars, calls, photoVars, locationVars, headVars,
                    subVars, envVars, turn, agentCalls, cuePromises, cueChains>>

vars == <<ctrlVars, display, lastOp, auxVars>>

\* what display holds after a handler that rendered nothing
Nothing == "-"

Fired == -1

FreshId(used) == CHOOSE i \in 1..(Cardinality(used) + 1) : i \notin used

Ids(S) == {r.id : r \in S}

\* clearTimeout left out: the superseded timer stays pending
ClearsNothing(pending, handle) == pending

\* clearTimeout(handle) on a set of pending timers
ClearTimeout(pending, handle) == {t \in pending : t.id # handle}

\* a field after the timer `id` ran: the handle stays truthy, the timer is gone
AfterFire(fieldValue, id) == IF fieldValue = id THEN Fired ELSE fieldValue

\* ------------------------------------------------- transcript processor
\* A string is a sequence of symbols: letters (or whole words), the space
\* and the line break.
SP == " "
NL == "\n"
Whitespace == {SP, NL}

\* String.prototype.trim
trim(s) ==
    LET solid == {i \in DOMAIN s : s[i] \notin Whitespace}
    IN  IF solid = {} THEN <<>>
        ELSE SubSeq(s, CHOOSE i \in solid : \A j \in solid : i <= j,
                       CHOOSE i \in solid : \A j \in solid : i >= j)

\* Array.prototype.join
RECURSIVE join(_, _)
join(parts, sep) ==
    IF parts = <<>> THEN <<>>
    ELSE IF Len(parts) = 1 THEN parts[1]
    ELSE parts[1] \o <<sep>> \o join(Tail(parts), sep)

\* new TranscriptProcessor(30, 3, 3, false)
MaxCharsPerLine == 30
MaxLines == 3
MaxFinalTranscripts == 3

constructor(maxCharsPerLine, maxLines, maxFinalTranscripts) ==
    [maxCharsPerLine |-> maxCharsPerLine, maxLines |-> maxLines,
     maxFinalTranscripts |-> maxFinalTranscripts,
     partialText |-> <<>>, lastUserTranscript |-> <<>>,
     finalTranscriptHistory |-> <<>>, currentDisplayLines |-> <<>>]

NewProcessor == constructor(MaxCharsPerLine, MaxLines, MaxFinalTranscripts)

\* the trim left out: the history is never cut down
KeepsAll(history, max) == history

\* while (history.length > max) history.shift()
ShiftDownTo(history, max) ==
    IF Len(history) > max
    THEN SubSeq(history, Len(history) - max + 1, Len(history))
    ELSE history

\* an empty final text is stored like any other
AddsEmptyToo(history, transcript, max) == ShiftDownTo(Append(history, transcript), max)

addToTranscriptHistory(history, transcript, max) ==
    IF trim(transcript) = <<>> THEN history
    ELSE ShiftDownTo(Append(history, transcript), max)

setMaxFinalTranscripts(tp, maxFinalTranscripts) ==
    [tp EXCEPT !.maxFinalTranscripts = maxFinalTranscripts,
               !.finalTranscriptHistory = ShiftDownTo(@, maxFinalTranscripts)]

RECURSIVE wrapText(_, _)
wrapText(text, maxLineLength) ==
    IF text = <<>> THEN <<>>
    ELSE IF Len(text) <= maxLineLength THEN <<text>>
    ELSE LET spaces == {i \in 1..maxLineLength : text[i + 1] = SP}
             splitIndex == IF spaces = {} THEN maxLineLength
                           ELSE CHOOSE i \in spaces : \A j \in spaces : i >= j
         IN  <<trim(SubSeq(text, 1, splitIndex))>>
                 \o wrapText(trim(SubSeq(text, splitIndex + 1, Len(text))), maxLineLength)

\* lines 40-46 and 60-66: padded at the end, cut at the front
ExactlyMaxLines(lines, maxLines) ==
    IF Len(lines) < maxLines
    THEN lines \o [i \in 1..(maxLines - Len(lines)) |-> <<>>]
    ELSE SubSeq(lines, Len(lines) - maxLines + 1, Len(lines))

\* the text the call wraps: getCombinedTranscriptHistory(), and for a partial
\* the text after it
combinedText(history, text, isFinal) ==
    IF isFinal THEN join(history, SP) ELSE join(history, SP) \o <<SP>> \o text

\* a partial text is stored as if it were final
StoresPartials(tp, newText, isFinal) ==
    LET text == trim(newText)
        history == addToTranscriptHistory(tp.finalTranscriptHistory, text,
                                          tp.maxFinalTranscripts)
    IN  [tp EXCEPT !.partialText = IF isFinal THEN <<>> ELSE text,
                   !.lastUserTranscript = IF isFinal THEN @ ELSE text,
                   !.finalTranscriptHistory = history,
                   !.currentDisplayLines =
                       ExactlyMaxLines(wrapText(combinedText(history, text, isFinal),
                                                tp.maxCharsPerLine), tp.maxLines)]

\* the processor after processString(newText, isFinal)
processString(tp, newText, isFinal) ==
    LET text == trim(newText)
        history == IF isFinal
                   THEN addToTranscriptHistory(tp.finalTranscriptHistory, text,
                                               tp.maxFinalTranscripts)
                   ELSE tp.finalTranscriptHistory
    IN  [tp EXCEPT !.partialText = IF isFinal THEN <<>> ELSE text,
                   !.lastUserTranscript = IF isFinal THEN @ ELSE text,
                   !.finalTranscriptHistory = history,
                   !.currentDisplayLines =
                       ExactlyMaxLines(wrapText(combinedText(history, text, isFinal),
                                                tp.maxCharsPerLine), tp.maxLines)]

\* what processString returns: currentDisplayLines.join("\n")
Returned(tp) == join(tp.currentDisplayLines, NL)

clear(tp) == [tp EXCEPT !.partialText = <<>>, !.finalTranscriptHistory = <<>>]

\* ---------------------------------------------------------------- photos
NoPhoto == [promise |-> 0, photoData |-> FALSE, fresh |-> FALSE]

PromisesInUse == photoRequests \cup photoPurgeTimers \cup {activePhotos.promise}

\* ---------------------------------------------------------- subscription
\* the test of line 1165 left out: a handler is registered on every call
SubscribesAgain(field, subs) ==
    LET s == FreshId(subs) IN <<s, subs \cup {s}>>

ensureTranscriptionSubscribed(field, subs) ==
    IF field # 0 THEN <<field, subs>>
    ELSE LET s == FreshId(subs) IN <<s, subs \cup {s}>>

\* the test of isListeningToQuery left out
UnsubscribesAlways(field, subs, listening) ==
    IF field # 0 THEN <<0, subs \ {field}>> ELSE <<field, subs>>

ensureTranscriptionUnsubscribed(field, subs, listening) ==
    IF field # 0 /\ ~listening THEN <<0, subs \ {field}>>
    ELSE <<field, subs>>

initTranscriptionSubscription(requireHeadUpWindow, field, subs, listening) ==
    IF requireHeadUpWindow
    THEN ensureTranscriptionUnsubscribed(field, subs, listening)
    ELSE ensureTranscriptionSubscribed(field, subs)

withinHeadWindow == headWakeWindowUntilMs = "open"

\* ----------------------------------------------------------------- init
\* The state after the constructor: the subscription follows the setting.
InitController ==
    /\ isProcessingQuery = FALSE
    /\ isListeningToQuery = FALSE
    /\ timeoutId = 0
    /\ maxListeningTimeoutId = 0
    /\ transcriptionStartTime = 0
    /\ settleTimers = {}
    /\ maxTimers = {}
    /\ cooldownTimers = 0
    /\ calls = EmptyBag
    /\ display = Nothing
    /\ activePhotos = NoPhoto
    /\ photoRequests = {}
    /\ photoPurgeTimers = {}
    /\ locationLookups = 0
    /\ locationContext = "unset"
    /\ wake_requires_head_up \in BOOLEAN
    /\ lastHeadPosition = "null"
    /\ headWakeWindowUntilMs = "zero"
    /\ headWindowTimeoutId = 0
    /\ headWindowTimers = {}
    /\ LET sub == initTranscriptionSubscription(wake_requires_head_up, 0, {}, FALSE)
       IN  transcriptionUnsubscribe = sub[1] /\ subscriptions = sub[2]
    /\ hasCamera \in BOOLEAN
    /\ cleanedUp = FALSE
    /\ playsAudio \in BOOLEAN
    /\ cuePromises = 0
    /\ cueChains = {}
    /\ turn = 0
    /\ agentCalls = [t \in 1..MaxTurns |-> 0]
    /\ lastOp = "init"

\* runClaude has not resolved
NoResult == [extracted |-> FALSE, name |-> FALSE, email |-> FALSE]

\* no recording has been started
NotRecording ==
    [stage |-> "idle", steps |-> <<>>, faceRecognitionName |-> FALSE,
     configured |-> FALSE, transcription |-> "none", claudeResult |-> NoResult,
     saved |-> FALSE, emailed |-> FALSE, failedAt |-> "none",
     result |-> [success |-> FALSE, emailResult |-> FALSE]]

\* ConversationManager field initialisers (lines 218-221) and an empty file
NewManager ==
    [isRecording |-> FALSE, currentSession |-> 0, sessionSegments |-> <<>>,
     conversationSegments |-> <<>>, started |-> 0, sessions |-> <<>>, result |-> 0]

Users == {"u1", "u2"}

NoVoice == [isRecordingVoice |-> FALSE, pipelines |-> 0, result |-> "none"]

InitServices ==
    /\ conversation = NewManager
    /\ heard = <<>>
    /\ voice = [u \in Users |-> NoVoice]

InitProcessorLog == finalTexts = <<>> /\ displayString = <<>> /\ fresh = NewProcessor

Init ==
    /\ InitController
    /\ transcriptProcessor = NewProcessor
    /\ InitProcessorLog
    /\ removals = <<>>
    /\ recording = NotRecording
    /\ InitServices

\* ------------------------------------------------- handleTranscription
\* the guard of line 629 left out
IgnoresNothing == FALSE

\* line 629: a query is being processed, the event is dropped
IgnoresTranscription == isProcessingQuery

\* the head-window test of line 653 left out
GatedByWakeWordOnly(e) == ~isListeningToQuery /\ ~ContainsWakeWord(e.text)

\* lines 649-658: not listening, and no wake word or outside the head-up window
GatedOut(e) ==
    /\ ~isListeningToQuery
    /\ \/ ~ContainsWakeWord(e.text)
       \/ wake_requires_head_up /\ ~withinHeadWindow

\* line 699: this event opens the turn
OpensTurn == ~isListeningToQuery

\* lines 661-668: an entry older than 5 s is deleted
AfterStaleCheck(entry) ==
    IF entry # NoPhoto /\ ~entry.fresh THEN NoPhoto ELSE entry

\* lines 670-672: a photo is requested
RequestsPhoto(entry) == entry = NoPhoto /\ hasCamera

HandlePhoto ==
    LET entry == AfterStaleCheck(activePhotos)
        p == FreshId(PromisesInUse)
    IN  IF RequestsPhoto(entry)
        THEN /\ Cardinality(PromisesInUse \ {0}) < MaxPhotoRequests
             /\ activePhotos' = [promise |-> p, photoData |-> FALSE, fresh |-> TRUE]
             /\ photoRequests' = photoRequests \cup {p}
             /\ UNCHANGED photoPurgeTimers
        ELSE /\ activePhotos' = entry
             /\ UNCHANGED <<photoRequests, photoPurgeTimers>>

\* lines 702-704: the listening cue is played when responses are spoken or
\* there is no display; the promise gets no rejection handler
PlayAudio(pending) == IF playsAudio THEN pending + 1 ELSE pending

\* lines 1044-1052: the playAudio calls of one processing-cue chain
MaxCuePlays == 5

\* lines 1027 and 1042-1044: processQuery starts its processing-cue chain.
\* isRunning is the local variable the chain's callbacks read; live says
\* that the call's agent invocation has not completed yet.
StartCueChain(chains) ==
    IF playsAudio
    THEN chains \cup {[id |-> FreshId(Ids(chains)), played |-> 1,
                       isRunning |-> TRUE, live |-> TRUE]}
    ELSE chains

\* line 1078 (isRunning = false once the agent returned) and lines 1111-1113
\* (the catch block leaves isRunning alone)
AgentCompleted(chains, returned) ==
    {[ch EXCEPT !.live = FALSE,
                !.isRunning = IF ch.live /\ returned THEN FALSE ELSE @] : ch \in chains}

\* lines 699-726: cue, location lookup, 15 s maximum-listening timer
EnterTurn ==
    IF OpensTurn
    THEN /\ turn < MaxTurns
         /\ cuePromises' = PlayAudio(cuePromises)
         /\ UNCHANGED cueChains
         /\ turn' = turn + 1
         /\ locationLookups' = locationLookups + 1
         /\ LET id == FreshId(Ids(maxTimers))
            IN  /\ maxTimers' = maxTimers \cup {[id |-> id, turn |-> turn + 1]}
                /\ maxListeningTimeoutId' = id
    ELSE UNCHANGED <<turn, cuePromises, cueChains, locationLookups, maxTimers, maxListeningTimeoutId>>

\* lines 737-751: the live display
ShowListening(e) ==
    LET displayText == removeWakeWord(e.text)
    IN  IF displayText = <<>>
        THEN /\ transcriptProcessor' =
                   IF transcriptProcessor.lastUserTranscript # <<>>
                   THEN processString(transcriptProcessor, <<>>, FALSE)
                   ELSE transcriptProcessor
             /\ display' = "Listening..."
        ELSE /\ transcriptProcessor' =
                   processString(transcriptProcessor, displayText, e.isFinal)
             /\ display' = "Listening... <query>"

\* lines 771-779: the settle timer is cancelled and replaced
ResetSettleTimer(e) ==
    LET kept == IF timeoutId # 0 THEN ClearTimeout(settleTimers, timeoutId)
                ELSE settleTimers
        id == FreshId(Ids(kept))
    IN  /\ settleTimers' = kept \cup {[id |-> id, dur |-> TimerDuration(e), turn |-> turn',
                                       atEntry |-> OpensTurn]}
        /\ timeoutId' = id

HandleTranscription(e) ==
    /\ subscriptions # {}
    /\ IF IgnoresTranscription
       THEN /\ lastOp' = "dropped"
            /\ display' = Nothing
            /\ UNCHANGED ctrlVars
       ELSE IF GatedOut(e)
       THEN /\ lastOp' = "ignored"
            /\ display' = Nothing
            /\ UNCHANGED ctrlVars
       ELSE /\ HandlePhoto
            /\ EnterTurn
            /\ isListeningToQuery' = TRUE
            /\ transcriptionStartTime' =
                   IF transcriptionStartTime = 0 THEN turn' ELSE transcriptionStartTime
            /\ ShowListening(e)
            /\ ResetSettleTimer(e)
            /\ lastOp' = IF OpensTurn THEN "wake" ELSE "listen"
            /\ UNCHANGED <<isProcessingQuery, cooldownTimers, calls, locationContext,
                           headVars, subVars, envVars, agentCalls>>

\* ------------------------------------------------------- processQuery
\* the start time ignored: the duration always falls back on the timer's
FromTimer == "timer"

\* lines 961-967: where the replay duration comes from
DurationSource == IF transcriptionStartTime > 0 THEN "elapsed" ELSE "timer"

\* a call of the given shape joins / leaves the calls in flight
Add(inFlight, c) == inFlight (+) SetToBag({c})
Remove(inFlight, c) == inFlight (-) SetToBag({c})

\* lines 959-977: the call runs up to its transcript fetch
StartProcessQuery(callTurn, inFlight) ==
    Add(inFlight, [turn |-> callTurn, stage |-> "fetch", dur |-> DurationSource,
                   promise |-> 0, photo |-> FALSE])

\* lines 776-779: the settle timer's callback
SettleTimerFires(t) ==
    /\ t \in settleTimers
    /\ BagCardinality(calls) < MaxCalls
    /\ settleTimers' = settleTimers \ {t}
    /\ timeoutId' = AfterFire(timeoutId, t.id)
    /\ calls' = StartProcessQuery(t.turn, calls)
    /\ display' = Nothing
    /\ lastOp' = "settleTimer"
    /\ UNCHANGED <<flagVars, maxListeningTimeoutId, maxTimers, cooldownTimers,
                   transcriptProcessor, photoVars, locationVars, headVars,
                   subVars, envVars, turn, cuePromises, cueChains, agentCalls>>

\* Timers set by one handler run in the order of their delays: the settle
\* timer (at most 10 s) set by the event that opened the turn runs, or is
\* cancelled, before that turn's maximum-listening timer (15 s).
FiresBefore(maxTimer, pending) ==
    {s \in pending : s.atEntry /\ s.turn = maxTimer.turn}

\* lines 718-725: the maximum-listening timer's callback
MaxListeningTimerFires(t) ==
    /\ t \in maxTimers
    /\ FiresBefore(t, settleTimers) = {}
    /\ BagCardinality(calls) < MaxCalls
    /\ maxTimers' = maxTimers \ {t}
    /\ maxListeningTimeoutId' = AfterFire(maxListeningTimeoutId, t.id)
    /\ settleTimers' = IF timeoutId # 0 THEN ClearTimeout(settleTimers, timeoutId)
                       ELSE settleTimers
    /\ timeoutId' = 0
    /\ calls' = StartProcessQuery(t.turn, calls)
    /\ display' = Nothing
    /\ lastOp' = "maxTimer"
    /\ UNCHANGED <<flagVars, cooldownTimers, transcriptProcessor, photoVars,
                   locationVars, headVars, subVars, envVars, turn, cuePromises, cueChains, agentCalls>>

\* lines 1000-1007: the fetch failed (network, HTTP status, empty body, bad JSON)
TranscriptFetchFails(c) ==
    /\ BagIn(c, calls) /\ c.stage = "fetch"
    /\ calls' = Remove(calls, c)
    /\ display' = "Sorry, there was an error retrieving your transcript. Please try again."
    /\ lastOp' = "fetchFailed"
    /\ UNCHANGED <<flagVars, timerVars, transcriptProcessor, photoVars, locationVars,
                   headVars, subVars, envVars, turn, cuePromises, cueChains, agentCalls>>

\* lines 1009-1016: the response has no segments array
TranscriptInvalid(c) ==
    /\ BagIn(c, calls) /\ c.stage = "fetch"
    /\ calls' = Remove(calls, c)
    /\ display' = "Sorry, the transcript format was invalid. Please try again."
    /\ lastOp' = "fetchInvalid"
    /\ UNCHANGED <<flagVars, timerVars, transcriptProcessor, photoVars, locationVars,
                   headVars, subVars, envVars, turn, cuePromises, cueChains, agentCalls>>

\* the guard of line 1021 left out
SecondQueryNeverBlocked == FALSE

\* line 1021: another query is being processed
SecondQueryBlocked == isProcessingQuery

\* the empty-query test of line 1032 left out
EmptyQueryNever(query) == FALSE

\* line 1032: nothing is left once the wake word is removed
EmptyQuery(query) == query = <<>>

\* lines 847-865 as far as the first await: what getPhoto does with the entry
PhotoStep(entry) ==
    IF entry # NoPhoto /\ entry.photoData THEN "cached"
    ELSE IF entry # NoPhoto THEN "wait"
    ELSE "null"

\* line 1076: miraAgent.handleContext is invoked by each call of the bag
OfTurn(B, t) == [c \in {d \in DOMAIN B : d.turn = t} |-> B[c]]

InvokeAgent(B) ==
    agentCalls' = [t \in 1..MaxTurns |-> agentCalls[t] + BagCardinality(OfTurn(B, t))]

\* lines 1018-1076: the transcript arrived
TranscriptFetched(c, raw) ==
    /\ BagIn(c, calls) /\ c.stage = "fetch"
    /\ IF SecondQueryBlocked
       THEN /\ calls' = Remove(calls, c)
            /\ lastOp' = "blocked"
            /\ display' = Nothing
            /\ UNCHANGED <<isProcessingQuery, agentCalls, cuePromises, cueChains>>
       ELSE IF EmptyQuery(removeWakeWord(raw))
       THEN /\ calls' = Remove(calls, c)
            /\ display' = "No query provided."
            /\ isProcessingQuery' = FALSE
            /\ lastOp' = "emptyQuery"
            /\ UNCHANGED <<agentCalls, cuePromises, cueChains>>
       ELSE /\ isProcessingQuery' = TRUE
            /\ display' = "Processing query: <query>"
            /\ lastOp' = "dispatch"
            /\ playsAudio => Cardinality(cueChains) < MaxCueChains
            /\ cueChains' = StartCueChain(cueChains)
            /\ UNCHANGED cuePromises
            /\ LET step == PhotoStep(activePhotos)
               IN  IF step = "wait"
                   THEN /\ calls' = Add(Remove(calls, c),
                              [c EXCEPT !.stage = "photo", !.promise = activePhotos.promise])
                        /\ UNCHANGED agentCalls
                   ELSE /\ calls' = Add(Remove(calls, c),
                              [c EXCEPT !.stage = "agent", !.photo = (step = "cached")])
                        /\ InvokeAgent(SetToBag({c}))
    /\ UNCHANGED <<isListeningToQuery, transcriptionStartTime, timerVars,
                   transcriptProcessor, photoVars, locationVars, headVars, subVars,
                   envVars, turn>>

\* line 856: the 3 s bound of the photo wait elapsed first
PhotoWaitTimesOut(c) ==
    /\ BagIn(c, calls) /\ c.stage = "photo"
    /\ calls' = Add(Remove(calls, c), [c EXCEPT !.stage = "agent", !.promise = 0])
    /\ InvokeAgent(SetToBag({c}))
    /\ display' = Nothing
    /\ lastOp' = "photoTimeout"
    /\ UNCHANGED <<flagVars, timerVars, transcriptProcessor, photoVars,
                   locationVars, headVars, subVars, envVars, turn, cuePromises, cueChains>>

\* the flag reset at once instead of by the 2 s timer
ProcessingResetAtOnce == FALSE

\* line 1140: what isProcessingQuery is when the finally block ends
ProcessingAfterFinally == isProcessingQuery

\* the finally block left out: the call ends and nothing is reset
FinallySkipped(n) ==
    UNCHANGED <<flagVars, timerVars, subVars, transcriptProcessor>>

\* lines 1114-1143: the finally block, run by each of n calls ending together
Finally(n) ==
    /\ transcriptionStartTime' = 0
    /\ settleTimers' = IF timeoutId # 0 THEN ClearTimeout(settleTimers, timeoutId)
                       ELSE settleTimers
    /\ timeoutId' = 0
    /\ maxTimers' = IF maxListeningTimeoutId # 0
                    THEN ClearTimeout(maxTimers, maxListeningTimeoutId)
                    ELSE maxTimers
    /\ maxListeningTimeoutId' = 0
    /\ isListeningToQuery' = FALSE
    /\ LET sub == IF wake_requires_head_up /\ ~withinHeadWindow
                  THEN ensureTranscriptionUnsubscribed(
                           transcriptionUnsubscribe, subscriptions, FALSE)
                  ELSE <<transcriptionUnsubscribe, subscriptions>>
       IN  transcriptionUnsubscribe' = sub[1] /\ subscriptions' = sub[2]
    /\ transcriptProcessor' = clear(transcriptProcessor)
    /\ cooldownTimers' = cooldownTimers + n
    /\ isProcessingQuery' = ProcessingAfterFinally

\* calls inside miraAgent.handleContext
AgentInFlight == BagCardinality([c \in {d \in DOMAIN calls : d.stage = "agent"} |-> calls[c]])

\* lines 1078-1110: the agent returned
AgentResults == {"null", "empty", "takeover", "text", "json", "jsonEvent"}

\* line 1080: !agentResponse
Falsy(result) == result \in {"null", "empty"}

\* lines 1086-1104: the text parses as JSON with an event tag that a case of
\* the switch handles; the switch has no case but the default
Handled(result) == FALSE

\* every result but the sentinel takes the error message
RenderedAsError(result) ==
    IF result = "takeover" THEN Nothing
    ELSE "Sorry, there was an error processing your request."

Rendered(result) ==
    IF Falsy(result) THEN "Sorry, I couldn't find an answer to that."
    ELSE IF result = "takeover" THEN Nothing
    ELSE IF Handled(result) THEN Nothing
    ELSE "<agent response>"

AgentReturns(c, result) ==
    /\ BagIn(c, calls) /\ c.stage = "agent"
    /\ calls' = Remove(calls, c)
    /\ display' = Rendered(result)
    /\ Finally(1)
    /\ cueChains' = AgentCompleted(cueChains, TRUE)
    /\ lastOp' = "agentReturned"
    /\ UNCHANGED <<photoVars, locationVars, headVars, envVars, turn, cuePromises, agentCalls>>

\* lines 1111-1113: the agent call threw
AgentThrows(c) ==
    /\ BagIn(c, calls) /\ c.stage = "agent"
    /\ calls' = Remove(calls, c)
    /\ display' = "Sorry, there was an error processing your request."
    /\ Finally(1)
    /\ cueChains' = AgentCompleted(cueChains, FALSE)
    /\ lastOp' = "agentThrew"
    /\ UNCHANGED <<photoVars, locationVars, headVars, envVars, turn, cuePromises, agentCalls>>

\* lines 1140-1142: the cooldown timer's callback
CooldownFires ==
    /\ cooldownTimers > 0
    /\ cooldownTimers' = cooldownTimers - 1
    /\ isProcessingQuery' = FALSE
    /\ display' = Nothing
    /\ lastOp' = "cooldown"
    /\ UNCHANGED <<isListeningToQuery, transcriptionStartTime, timeoutId,
                   maxListeningTimeoutId, settleTimers, maxTimers, calls,
                   transcriptProcessor, photoVars, locationVars, headVars,
                   subVars, envVars, turn, cuePromises, cueChains, agentCalls>>
    /\ UNCHANGED auxVars

\* ---------------------------------------------------------------- photos
Waiting(p) == {c \in DOMAIN calls : c.stage = "photo" /\ c.promise = p}

WaitingCalls(p) == [c \in Waiting(p) |-> calls[c]]

NotWaiting(p) == [c \in DOMAIN calls \ Waiting(p) |-> calls[c]]

\* lines 674-685: the photo arrived; calls racing on it go on to the agent
PhotoResolves(p) ==
    /\ p \in photoRequests
    /\ photoRequests' = photoRequests \ {p}
    /\ activePhotos' = [promise |-> p, photoData |-> TRUE, fresh |-> TRUE]
    /\ photoPurgeTimers' = photoPurgeTimers \cup {p}
    /\ LET resumed == [d \in {[c EXCEPT !.stage = "agent", !.promise = 0, !.photo = TRUE] :
                                c \in Waiting(p)} |->
                          calls[[d EXCEPT !.stage = "photo", !.promise = p, !.photo = FALSE]]]
       IN  calls' = NotWaiting(p) (+) resumed
    /\ InvokeAgent(WaitingCalls(p))
    /\ display' = Nothing
    /\ lastOp' = "photoResolved"
    /\ UNCHANGED <<flagVars, timerVars, transcriptProcessor, locationVars,
                   headVars, subVars, envVars, turn, cuePromises, cueChains>>

\* lines 686-689: the photo request failed; a call racing on it takes the
\* catch and finally blocks of processQuery (lines 1111-1143)
PhotoRejects(p) ==
    /\ p \in photoRequests
    /\ photoRequests' = photoRequests \ {p}
    /\ activePhotos' = NoPhoto
    /\ calls' = NotWaiting(p)
    /\ IF Waiting(p) # {}
       THEN /\ display' = "Sorry, there was an error processing your request."
            /\ Finally(BagCardinality(WaitingCalls(p)))
            /\ cueChains' = AgentCompleted(cueChains, FALSE)
       ELSE /\ display' = Nothing
            /\ UNCHANGED <<flagVars, timerVars, transcriptProcessor, subVars, cueChains>>
    /\ lastOp' = "photoRejected"
    /\ UNCHANGED <<photoPurgeTimers, locationVars, headVars, envVars, turn, cuePromises, agentCalls>>

\* lines 680-685: the 30 s purge timer of promise p
PhotoPurgeTimerFires(p) ==
    /\ p \in photoPurgeTimers
    /\ activePhotos.promise = p => ~activePhotos.fresh
    /\ photoPurgeTimers' = photoPurgeTimers \ {p}
    /\ activePhotos' = IF activePhotos.promise = p THEN NoPhoto ELSE activePhotos
    /\ display' = Nothing
    /\ lastOp' = "photoPurge"
    /\ UNCHANGED <<flagVars, timerVars, calls, transcriptProcessor,
                   photoRequests, locationVars, headVars, subVars, envVars, turn, cuePromises, cueChains, agentCalls>>

\* time passes: lastPhotoTime + 5000 < Date.now() becomes true
PhotoAges ==
    /\ activePhotos # NoPhoto /\ activePhotos.fresh
    /\ activePhotos' = [activePhotos EXCEPT !.fresh = FALSE]
    /\ display' = Nothing
    /\ lastOp' = "time"
    /\ UNCHANGED <<flagVars, timerVars, calls, transcriptProcessor,
                   photoRequests, photoPurgeTimers, locationVars, headVars, subVars,
                   envVars, turn, cuePromises, cueChains, agentCalls>>
    /\ UNCHANGED auxVars

\* -------------------------------------------------------------- location
LocationOutcomes ==
    {"rejected", "none", "invalid", "geocodingFailed", "timezoneFailed", "resolved"}

\* handleLocation (lines 871-954): what updateLocationContext is given
LocationContextFor(outcome) ==
    IF outcome = "invalid" THEN "fallback"
    ELSE IF outcome \in {"geocodingFailed", "timezoneFailed"} THEN "partial"
    ELSE "resolved"

\* lines 706-712: the lookup settles; handleLocation runs only for a position
LocationSettles(outcome) ==
    /\ locationLookups > 0
    /\ locationLookups' = locationLookups - 1
    /\ locationContext' = IF outcome \in {"rejected", "none"} THEN locationContext
                          ELSE LocationContextFor(outcome)
    /\ display' = Nothing
    /\ lastOp' = "location"
    /\ UNCHANGED <<flagVars, timerVars, calls, transcriptProcessor, photoVars,
                   headVars, subVars, envVars, turn, cuePromises, cueChains, agentCalls>>

\* ------------------------------------------------------------- head gate
\* the previous position ignored: every 'up' opens a window
OpensOnAnyUp(current) == wake_requires_head_up /\ current = "up"

\* lines 802-809: the gate is enabled and the head went from down to up
OpensWindow(current) ==
    wake_requires_head_up /\ lastHeadPosition = "down" /\ current = "up"

\* lines 787-831
HandleHeadPosition(current) ==
    /\ lastHeadPosition' = current
    /\ IF OpensWindow(current)
       THEN /\ headWakeWindowUntilMs' = "open"
            /\ LET sub == ensureTranscriptionSubscribed(transcriptionUnsubscribe, subscriptions)
               IN  transcriptionUnsubscribe' = sub[1] /\ subscriptions' = sub[2]
            /\ LET kept == IF headWindowTimeoutId # 0
                           THEN ClearTimeout(headWindowTimers, headWindowTimeoutId)
                           ELSE headWindowTimers
                   id == FreshId(Ids(kept))
               IN  /\ headWindowTimers' = kept \cup {[id |-> id]}
                   /\ headWindowTimeoutId' = id
       ELSE UNCHANGED <<headWakeWindowUntilMs, headWindowTimeoutId, headWindowTimers, subVars>>
    /\ display' = Nothing
    /\ lastOp' = "headPosition"
    /\ UNCHANGED <<flagVars, timerVars, calls, transcriptProcessor, photoVars,
                   locationVars, envVars, turn, cuePromises, cueChains, agentCalls>>

\* lines 817-824: the head-window expiry timer's callback
HeadWindowTimerFires(t) ==
    /\ t \in headWindowTimers
    /\ headWindowTimers' = headWindowTimers \ {t}
    /\ LET sub == ensureTranscriptionUnsubscribed(
                      transcriptionUnsubscribe, subscriptions, isListeningToQuery)
       IN  transcriptionUnsubscribe' = sub[1] /\ subscriptions' = sub[2]
    /\ headWakeWindowUntilMs' = "zero"
    /\ headWindowTimeoutId' = 0
    /\ display' = Nothing
    /\ lastOp' = "headWindowTimer"
    /\ UNCHANGED <<flagVars, timerVars, calls, transcriptProcessor, photoVars,
                   locationVars, lastHeadPosition, envVars, turn, cuePromises, cueChains, agentCalls>>

\* time passes: Date.now() > headWakeWindowUntilMs becomes true
HeadWindowElapses ==
    /\ headWakeWindowUntilMs = "open"
    /\ headWakeWindowUntilMs' = "elapsed"
    /\ display' = Nothing
    /\ lastOp' = "time"
    /\ UNCHANGED <<flagVars, timerVars, calls, transcriptProcessor, photoVars,
                   locationVars, lastHeadPosition, headWindowTimeoutId, headWindowTimers,
                   subVars, envVars, turn, cuePromises, cueChains, agentCalls>>
    /\ UNCHANGED auxVars

\* lines 1299-1302: settings.onChange re-evaluates the subscription
SettingsChange(v) ==
    /\ wake_requires_head_up' = v
    /\ LET sub == initTranscriptionSubscription(
                      v, transcriptionUnsubscribe, subscriptions, isListeningToQuery)
       IN  transcriptionUnsubscribe' = sub[1] /\ subscriptions' = sub[2]
    /\ display' = Nothing
    /\ lastOp' = "settings"
    /\ UNCHANGED <<flagVars, timerVars, calls, transcriptProcessor, photoVars,
                   locationVars, headVars, hasCamera, cleanedUp, playsAudio, turn,
                   cuePromises, cueChains, agentCalls>>

\* ------------------------------------------------------------ audio cues
CueOutcomes == {"resolved", "rejected"}

\* lines 702-704: the listening cue's promise settles; a rejection has no
\* handler and reaches the host as an unhandled rejection
CueSettles(outcome) ==
    /\ cuePromises > 0
    /\ cuePromises' = cuePromises - 1
    /\ display' = Nothing
    /\ lastOp' = IF outcome = "rejected" THEN "unhandledRejection" ELSE "cue"
    /\ UNCHANGED <<flagVars, timerVars, calls, transcriptProcessor, photoVars,
                   locationVars, headVars, subVars, envVars, turn, agentCalls, cueChains>>

\* lines 1044-1060: the outstanding playback of a processing-cue chain
\* settles.  Resolved, it is followed by the next playback if isRunning is
\* still true and the chain has one left; rejected, it has no handler.
CueChainSettles(ch, outcome) ==
    /\ ch \in cueChains
    /\ IF outcome = "resolved" /\ ch.isRunning /\ ch.played < MaxCuePlays
       THEN /\ cueChains' = (cueChains \ {ch}) \cup {[ch EXCEPT !.played = @ + 1]}
            /\ lastOp' = "cueReplayed"
       ELSE /\ cueChains' = cueChains \ {ch}
            /\ lastOp' = IF outcome = "rejected" THEN "unhandledRejection" ELSE "cue"
    /\ display' = Nothing
    /\ UNCHANGED <<flagVars, timerVars, calls, transcriptProcessor, photoVars,
                   locationVars, headVars, subVars, envVars, turn, agentCalls, cuePromises>>

\* ------------------------------------------------------------- teardown
\* lines 1340-1349 and 1226-1235: onStop runs cleanup() and removes the
\* manager from the server's map
Cleanup ==
    /\ ~cleanedUp
    /\ cleanedUp' = TRUE
    /\ settleTimers' = IF timeoutId # 0 THEN ClearTimeout(settleTimers, timeoutId)
                       ELSE settleTimers
    /\ maxTimers' = IF maxListeningTimeoutId # 0
                    THEN ClearTimeout(maxTimers, maxListeningTimeoutId)
                    ELSE maxTimers
    /\ display' = Nothing
    /\ lastOp' = "cleanup"
    /\ UNCHANGED <<flagVars, timeoutId, maxListeningTimeoutId, cooldownTimers, calls,
                   transcriptProcessor, photoVars, locationVars, headVars, subVars,
                   wake_requires_head_up, hasCamera, playsAudio, turn, cuePromises, cueChains,
                   agentCalls>>
    /\ UNCHANGED auxVars

\* ----------------------------------------------------------------- specs
Transcription == (\E e \in Events : HandleTranscription(e)) /\ UNCHANGED auxVars
SettleTimer == (\E t \in settleTimers : SettleTimerFires(t)) /\ UNCHANGED auxVars
MaxListeningTimer == (\E t \in maxTimers : MaxListeningTimerFires(t)) /\ UNCHANGED auxVars
FetchFails == (\E c \in DOMAIN calls : TranscriptFetchFails(c)) /\ UNCHANGED auxVars
FetchInvalid == (\E c \in DOMAIN calls : TranscriptInvalid(c)) /\ UNCHANGED auxVars
Fetched == (\E c \in DOMAIN calls, raw \in ReplayTexts : TranscriptFetched(c, raw)) /\ UNCHANGED auxVars
PhotoTimeout == (\E c \in DOMAIN calls : PhotoWaitTimesOut(c)) /\ UNCHANGED auxVars
AgentReturn == (\E c \in DOMAIN calls, r \in AgentResults : AgentReturns(c, r)) /\ UNCHANGED auxVars
AgentThrow == (\E c \in DOMAIN calls : AgentThrows(c)) /\ UNCHANGED auxVars
PhotoResolve == (\E p \in photoRequests : PhotoResolves(p)) /\ UNCHANGED auxVars
PhotoReject == (\E p \in photoRequests : PhotoRejects(p)) /\ UNCHANGED auxVars
PhotoPurge == (\E p \in photoPurgeTimers : PhotoPurgeTimerFires(p)) /\ UNCHANGED auxVars
Location == (\E o \in LocationOutcomes : LocationSettles(o)) /\ UNCHANGED auxVars
HeadPosition == (\E h \in {"up", "down"} : HandleHeadPosition(h)) /\ UNCHANGED auxVars
HeadWindowTimer == (\E t \in headWindowTimers : HeadWindowTimerFires(t)) /\ UNCHANGED auxVars
Settings == (\E v \in BOOLEAN : SettingsChange(v)) /\ UNCHANGED auxVars

\* The turn controller on glasses without a camera, head gate disabled.
InitCore ==
    Init /\ wake_requires_head_up = FALSE /\ hasCamera = FALSE /\ playsAudio = FALSE

Next ==
    \/ Transcription
    \/ SettleTimer
    \/ MaxListeningTimer
    \/ FetchFails
    \/ FetchInvalid
    \/ Fetched
    \/ AgentReturn
    \/ AgentThrow
    \/ CooldownFires
    \/ Location

Spec == InitCore /\ [][Next]_vars

\* The same with photo coordination (head gate disabled).
InitPhoto == Init /\ wake_requires_head_up = FALSE /\ playsAudio = FALSE

NextPhoto ==
    \/ Transcription
    \/ SettleTimer
    \/ MaxListeningTimer
    \/ FetchFails
    \/ FetchInvalid
    \/ Fetched
    \/ AgentReturn
    \/ AgentThrow
    \/ CooldownFires
    \/ PhotoTimeout
    \/ PhotoResolve
    \/ PhotoReject
    \/ PhotoPurge
    \/ PhotoAges

PhotoSpec == InitPhoto /\ [][NextPhoto]_vars

\* The same with the head gate and settings changes (no camera).
InitGate == Init /\ hasCamera = FALSE /\ playsAudio = FALSE

NextGate ==
    \/ Transcription
    \/ SettleTimer
    \/ MaxListeningTimer
    \/ FetchFails
    \/ FetchInvalid
    \/ Fetched
    \/ AgentReturn
    \/ AgentThrow
    \/ CooldownFires
    \/ HeadPosition
    \/ HeadWindowTimer
    \/ HeadWindowElapses
    \/ Settings

GateSpec == InitGate /\ [][NextGate]_vars

\* The gated controller with session teardown.  Once the session has stopped
\* no event reaches the controller: the event stream has ended and the
\* server no longer finds the manager (lines 1292-1302).  Its pending timers
\* and its calls in flight go on.
NextStop ==
    \/ ~cleanedUp /\ NextGate
    \/ Cleanup
    \/ /\ cleanedUp
       /\ \/ SettleTimer
          \/ MaxListeningTimer
          \/ FetchFails
          \/ FetchInvalid
          \/ Fetched
          \/ AgentReturn
          \/ AgentThrow
          \/ CooldownFires
          \/ HeadWindowTimer
          \/ HeadWindowElapses

StopSpec == InitGate /\ [][NextStop]_vars

\* The turn controller with its audio cues (no camera, head gate disabled).
InitCue == Init /\ wake_requires_head_up = FALSE /\ hasCamera = FALSE

Cue == (\E o \in CueOutcomes : CueSettles(o)) /\ UNCHANGED auxVars
CueChain == (\E ch \in cueChains, o \in CueOutcomes : CueChainSettles(ch, o)) /\ UNCHANGED auxVars

NextCue ==
    \/ Transcription
    \/ SettleTimer
    \/ MaxListeningTimer
    \/ FetchFails
    \/ FetchInvalid
    \/ Fetched
    \/ AgentReturn
    \/ AgentThrow
    \/ CooldownFires
    \/ Cue
    \/ CueChain

CueSpec == InitCue /\ [][NextCue]_vars

\* Timers fire and outstanding calls settle; nothing forces a further
\* transcription event.
Fairness ==
    /\ WF_vars(SettleTimer)
    /\ WF_vars(MaxListeningTimer)
    /\ WF_vars(FetchFails \/ FetchInvalid \/ Fetched)
    /\ WF_vars(AgentReturn \/ AgentThrow)
    /\ WF_vars(CooldownFires)
    /\ WF_vars(Location)

LiveSpec == InitCore /\ [][Next]_vars /\ Fairness

\* -------------------------------------------- the transcript processor alone
MaxTextLen == 3      \* symbols in a text given to processString
MaxFinalTexts == 3   \* non-empty final texts given to one processor
MaxHistoryCap == 2   \* largest maxFinalTranscripts
MaxLineWidth == 3    \* largest maxCharsPerLine
MaxLineCount == 2    \* largest maxLines

Chars == {"a", SP, NL}
\* every text of up to two symbols, and the longer ones that are letters
\* around separators
InputTexts ==
    {t \in UNION {[1..n -> Chars] : n \in 0..MaxTextLen} :
        Len(t) > 2 => /\ t[1] = "a" /\ t[Len(t)] = "a"
                      /\ \A i \in 2..(Len(t) - 1) : t[i] \in Whitespace}

\* the controller at rest
Quiet == wake_requires_head_up = FALSE /\ hasCamera = FALSE /\ playsAudio = FALSE

InitProcessor ==
    /\ InitController /\ Quiet
    /\ \E w \in 1..MaxLineWidth, n \in 1..MaxLineCount, m \in 0..MaxHistoryCap :
           transcriptProcessor = constructor(w, n, m)
    /\ InitProcessorLog
    /\ removals = <<>>
    /\ recording = NotRecording
    /\ InitServices

ProcessString(text, isFinal) ==
    LET stored == isFinal /\ trim(text) # <<>>
    IN  /\ stored => Len(finalTexts) < MaxFinalTexts
        /\ transcriptProcessor' = processString(transcriptProcessor, text, isFinal)
        /\ displayString' = Returned(transcriptProcessor')
        /\ finalTexts' = IF stored THEN Append(finalTexts, trim(text)) ELSE finalTexts
        /\ lastOp' = IF isFinal THEN "final" ELSE "partial"
        /\ UNCHANGED <<controllerVars, display, removals, recording, fresh, serviceVars>>

SetMaxFinalTranscripts(maxFinalTranscripts) ==
    /\ transcriptProcessor' = setMaxFinalTranscripts(transcriptProcessor, maxFinalTranscripts)
    /\ lastOp' = "setMaxFinalTranscripts"
    /\ UNCHANGED <<controllerVars, display, finalTexts, displayString, removals, recording, fresh, serviceVars>>

Partial == \E t \in InputTexts : ProcessString(t, FALSE)
Final == \E t \in InputTexts : ProcessString(t, TRUE)
SetMax == \E m \in 0..MaxHistoryCap : SetMaxFinalTranscripts(m)

NextProcessor ==
    \/ Partial
    \/ Final
    \/ SetMax

ProcessorSpec == InitProcessor /\ [][NextProcessor]_vars

\* --------------------------------- the processor beside a new instance
InitClear ==
    /\ InitController /\ Quiet
    /\ \E w \in 1..MaxLineWidth, n \in 1..MaxLineCount, m \in 0..MaxHistoryCap :
           /\ transcriptProcessor = constructor(w, n, m)
           /\ fresh = constructor(w, n, m)
    /\ finalTexts = <<>> /\ displayString = <<>>
    /\ removals = <<>>
    /\ recording = NotRecording
    /\ InitServices

\* the same call on both processors
ProcessBoth(text, isFinal) ==
    /\ transcriptProcessor' = processString(transcriptProcessor, text, isFinal)
    /\ fresh' = processString(fresh, text, isFinal)
    /\ displayString' = Returned(transcriptProcessor')
    /\ lastOp' = IF isFinal THEN "final" ELSE "partial"
    /\ UNCHANGED <<controllerVars, display, finalTexts, removals, recording, serviceVars>>

\* clear() on the one, new ConversationTranscriptProcessor(...) for the other
Clear ==
    /\ transcriptProcessor' = clear(transcriptProcessor)
    /\ fresh' = constructor(transcriptProcessor.maxCharsPerLine,
                            transcriptProcessor.maxLines,
                            transcriptProcessor.maxFinalTranscripts)
    /\ lastOp' = "clear"
    /\ UNCHANGED <<controllerVars, display, finalTexts, displayString, removals, recording,
                   serviceVars>>

PartialBoth == \E t \in InputTexts : ProcessBoth(t, FALSE)
FinalBoth == \E t \in InputTexts : ProcessBoth(t, TRUE)

NextClear ==
    \/ PartialBoth
    \/ FinalBoth
    \/ Clear

ClearSpec == InitClear /\ [][NextClear]_vars

\* ------------------------------------------------------ removeWakeWord alone
MaxWords == 5          \* words in a text
MaxApplications == 2   \* times removeWakeWord is applied in turn

WordTexts == UNION {[1..n -> {W, X}] : n \in 0..MaxWords}

InitWakeWord ==
    /\ InitController /\ Quiet
    /\ transcriptProcessor = NewProcessor
    /\ InitProcessorLog
    /\ \E t \in WordTexts : removals = <<t>>
    /\ recording = NotRecording
    /\ InitServices

RemoveWakeWord ==
    /\ Len(removals) <= MaxApplications
    /\ removals' = Append(removals, removeWakeWord(removals[Len(removals)]))
    /\ lastOp' = "removeWakeWord"
    /\ UNCHANGED <<ctrlVars, display, finalTexts, displayString, recording, fresh, serviceVars>>

NextWakeWord ==
    \/ RemoveWakeWord

WakeWordSpec == InitWakeWord /\ [][NextWakeWord]_vars

\* ------------------------------------------------- VoiceRecordingService
PipelineSteps == <<"capture", "claude", "save", "email">>

\* runVoiceCapture: the script fails, or a transcription is found, or the
\* test transcription stands in for it
CaptureOutcomes == {"rejected", "spoken", "placeholder"}

\* runClaude: the child process fails or prints no JSON, or the parsed object
ClaudeOutcomes == {NoResult} \cup [extracted : {TRUE}, name : BOOLEAN, email : BOOLEAN]

\* saveToSupabase never rejects
SaveOutcomes == {"notConfigured", "error", "threw", "updated", "inserted"}

\* sendFollowUpEmail never rejects
EmailOutcomes == {"notReady", "noAddress", "failed", "threw", "sent"}

\* the catch of lines 104-110, and the early returns
Failed(r, step) ==
    [r EXCEPT !.stage = "returned", !.failedAt = step,
              !.result = [success |-> FALSE, emailResult |-> FALSE]]

Proceed(r, step) == [r EXCEPT !.stage = step, !.steps = Append(@, step)]

\* the check of line 77 left out
SaveUnchecked(outcome) == TRUE

\* supabaseResult.success
SaveSucceeded(outcome) == outcome \in {"updated", "inserted"}

StartRecording ==
    /\ recording.stage = "idle"
    /\ recording' = Proceed(recording, "capture")
    /\ lastOp' = "startRecording"
    /\ UNCHANGED <<ctrlVars, display, finalTexts, displayString, removals, fresh, serviceVars>>

VoiceCaptureSettles(outcome) ==
    /\ recording.stage = "capture"
    /\ recording' =
           IF outcome = "rejected" THEN Failed(recording, "capture")
           ELSE Proceed([recording EXCEPT !.transcription = outcome], "claude")
    /\ lastOp' = "runVoiceCapture"
    /\ UNCHANGED <<ctrlVars, display, finalTexts, displayString, removals, fresh, serviceVars>>

ClaudeSettles(outcome) ==
    /\ recording.stage = "claude"
    /\ recording' =
           IF ~outcome.extracted THEN Failed(recording, "claude")
           ELSE Proceed([recording EXCEPT !.claudeResult = outcome], "save")
    /\ lastOp' = "runClaude"
    /\ UNCHANGED <<ctrlVars, display, finalTexts, displayString, removals, fresh, serviceVars>>

SaveSettles(outcome) ==
    /\ recording.stage = "save"
    /\ (outcome = "notConfigured") <=> ~recording.configured
    /\ recording' =
           IF SaveSucceeded(outcome)
           THEN Proceed([recording EXCEPT !.saved = outcome \in {"updated", "inserted"}],
                        "email")
           ELSE Failed(recording, "save")
    /\ lastOp' = "saveToSupabase"
    /\ UNCHANGED <<ctrlVars, display, finalTexts, displayString, removals, fresh, serviceVars>>

EmailSettles(outcome) ==
    /\ recording.stage = "email"
    /\ (outcome = "noAddress") => ~recording.claudeResult.email
    /\ (outcome \in {"failed", "sent"}) => recording.claudeResult.email
    /\ recording' = [recording EXCEPT
                         !.stage = "returned",
                         !.emailed = (outcome = "sent"),
                         !.result = [success |-> TRUE,
                                     emailResult |-> (outcome = "sent")]]
    /\ lastOp' = "sendFollowUpEmail"
    /\ UNCHANGED <<ctrlVars, display, finalTexts, displayString, removals, fresh, serviceVars>>

VoiceCapture == \E o \in CaptureOutcomes : VoiceCaptureSettles(o)
Claude == \E o \in ClaudeOutcomes : ClaudeSettles(o)
Save == \E o \in SaveOutcomes : SaveSettles(o)
Email == \E o \in EmailOutcomes : EmailSettles(o)

InitRecording ==
    /\ InitController /\ Quiet
    /\ transcriptProcessor = NewProcessor
    /\ InitProcessorLog
    /\ removals = <<>>
    /\ \E face \in BOOLEAN, env \in BOOLEAN :
           recording = [NotRecording EXCEPT !.faceRecognitionName = face,
                                            !.configured = env]
    /\ InitServices

NextRecording ==
    \/ StartRecording
    \/ VoiceCapture
    \/ Claude
    \/ Save
    \/ Email

RecordingSpec == InitRecording /\ [][NextRecording]_vars

\* -------------------------------------------------- ConversationManager
\* One manager (one user).  currentSession is 0 for null, otherwise the
\* serial number of the session object; sessionSegments is its segments
\* array, conversationSegments the processor's; sessions is the storage
\* file; result is what the last stopConversation returned (0 for null).
MaxSessions == 2
MaxHeard == 3

MaxStoredSessions == 100

EndPhrases == {"stop recording"}

SparkEndWords == {"done"}

ConversationTexts ==
    {<<SP>>, <<SP, "a">>, <<"Stop Recording">>, <<"spark", SP, "done">>, <<"done">>}

ConversationEvents == [text : ConversationTexts, isFinal : BOOLEAN]

toLowerCase(text) ==
    [i \in DOMAIN text |-> IF text[i] = "Stop Recording" THEN "stop recording" ELSE text[i]]

checkForEndWakeWord(text) ==
    LET normalizedText == trim(toLowerCase(text))
        includes(words) == \E i \in DOMAIN normalizedText : normalizedText[i] \in words
    IN  \/ includes(EndPhrases)
        \/ includes({"spark"}) /\ includes(SparkEndWords)

saveConversation(allSessions, session) ==
    LET pushed == Append(allSessions, session)
    IN  IF Len(pushed) > MaxStoredSessions
        THEN SubSeq(pushed, Len(pushed) - MaxStoredSessions + 1, Len(pushed))
        ELSE pushed

LosesSession(m) ==
    IF ~m.isRecording \/ m.currentSession = 0
    THEN [m EXCEPT !.result = 0]
    ELSE [m EXCEPT !.isRecording = FALSE, !.currentSession = 0,
                   !.sessionSegments = <<>>, !.result = m.currentSession]

stopConversation(m) ==
    IF ~m.isRecording \/ m.currentSession = 0
    THEN [m EXCEPT !.result = 0]
    ELSE [m EXCEPT !.isRecording = FALSE,
                   !.sessions = saveConversation(@,
                                    [session  |-> m.currentSession,
                                     segments |-> m.conversationSegments]),
                   !.currentSession = 0,
                   !.sessionSegments = <<>>,
                   !.result = m.currentSession]

startConversation(m) ==
    LET stopped == IF m.isRecording THEN stopConversation(m) ELSE m
    IN  [stopped EXCEPT !.isRecording = TRUE,
                        !.started = @ + 1,
                        !.currentSession = m.started + 1,
                        !.sessionSegments = <<>>,
                        !.conversationSegments = <<>>]

EndsOnPartialToo(m, data) ==
    LET text == trim(data.text)
        segment == [text |-> text, isFinal |-> data.isFinal]
    IN  IF ~m.isRecording \/ m.currentSession = 0 THEN m
        ELSE IF text = <<>> THEN m
        ELSE IF checkForEndWakeWord(text) THEN stopConversation(m)
        ELSE [m EXCEPT !.sessionSegments = Append(@, segment),
                       !.conversationSegments = Append(@, segment)]

handleTranscription(m, data) ==
    LET text == trim(data.text)
        segment == [text |-> text, isFinal |-> data.isFinal]
    IN  IF ~m.isRecording \/ m.currentSession = 0 THEN m
        ELSE IF text = <<>> THEN m
        ELSE IF data.isFinal /\ checkForEndWakeWord(text) THEN stopConversation(m)
        ELSE [m EXCEPT !.sessionSegments = Append(@, segment),
                       !.conversationSegments = Append(@, segment)]

StartConversation ==
    /\ conversation.started < MaxSessions
    /\ conversation' = startConversation(conversation)
    /\ lastOp' = "startConversation"
    /\ UNCHANGED <<ctrlVars, display, finalTexts, displayString, removals, recording,
                   fresh, heard, voice>>

StopConversation ==
    /\ conversation' = stopConversation(conversation)
    /\ lastOp' = "stopConversation"
    /\ UNCHANGED <<ctrlVars, display, finalTexts, displayString, removals, recording,
                   fresh, heard, voice>>

ConversationTranscription(data) ==
    /\ Len(heard) < MaxHeard
    /\ conversation' = handleTranscription(conversation, data)
    /\ heard' = Append(heard, [session |-> conversation.currentSession,
                               text |-> data.text, isFinal |-> data.isFinal])
    /\ lastOp' = "conversationTranscription"
    /\ UNCHANGED <<ctrlVars, display, finalTexts, displayString, removals, recording,
                   fresh, voice>>

ConversationHears == \E data \in ConversationEvents : ConversationTranscription(data)

InitConversation ==
    /\ InitController
    /\ transcriptProcessor = NewProcessor
    /\ InitProcessorLog
    /\ removals = <<>>
    /\ recording = NotRecording
    /\ InitServices

NextConversation ==
    \/ StartConversation
    \/ StopConversation
    \/ ConversationHears

ConversationSpec == InitConversation /\ [][NextConversation]_vars

\* ------------------------------------------------- voice recording switch
MaxPipelines == 2

VoiceOutcomes == {"success", "failure"}

AlreadyRecording(v) == v.isRecordingVoice

\* startVoiceRecording up to the point where startRecording has been called
StartVoiceRecording(u) ==
    /\ IF AlreadyRecording(voice[u])
       THEN /\ voice' = voice
            /\ lastOp' = "voiceBusy"
       ELSE /\ voice[u].pipelines < MaxPipelines
            /\ voice' = [voice EXCEPT ![u].isRecordingVoice = TRUE,
                                      ![u].pipelines = @ + 1]
            /\ lastOp' = "startVoiceRecording"
    /\ UNCHANGED <<ctrlVars, display, finalTexts, displayString, removals, recording,
                   fresh, conversation, heard>>

\* the .then callback of one pipeline's promise
PipelineSettles(u, outcome) ==
    /\ voice[u].pipelines > 0
    /\ voice' = [voice EXCEPT ![u].isRecordingVoice = FALSE,
                              ![u].pipelines = @ - 1,
                              ![u].result = outcome]
    /\ lastOp' = "pipelineSettles"
    /\ UNCHANGED <<ctrlVars, display, finalTexts, displayString, removals, recording,
                   fresh, conversation, heard>>

OnStop(u) ==
    /\ voice' = [voice EXCEPT ![u].isRecordingVoice = FALSE,
                              ![u].result = "none"]
    /\ lastOp' = "onStop"
    /\ UNCHANGED <<ctrlVars, display, finalTexts, displayString, removals, recording,
                   fresh, conversation, heard>>

VoiceStarts == \E u \in Users : StartVoiceRecording(u)

VoiceSettles == \E u \in Users, outcome \in VoiceOutcomes : PipelineSettles(u, outcome)

VoiceStops == \E u \in Users : OnStop(u)

NextVoice ==
    \/ VoiceStarts
    \/ VoiceSettles
    \/ VoiceStops

VoiceSpec == InitConversation /\ [][NextVoice]_vars

\* --------------------------------------------------------------- claims
TranscriptionStep == \E e \in Events : HandleTranscription(e)

\* C1: miraAgent.handleContext is never invoked while an earlier invocation
\* of the session has not returned or thrown: at most one call is inside it.
C1_SingleFlight == AgentInFlight <= 1

\* a second processQuery call reached the guard while the agent was running
C1_Witness == AgentInFlight = 1 /\ lastOp = "blocked"

\* C2 (as claimed): the calls started by the timers of one listening turn
\* invoke the agent at most once, whatever the delays of their fetches.
C2_OneDispatchPerTurn == \A t \in 1..MaxTurns : agentCalls[t] <= 1

\* C3: a transcription event delivered while isProcessingQuery is true
\* changes nothing: no flag, timer, photo or location request, buffer.
C3_DroppedWhileProcessing ==
    [][(isProcessingQuery /\ TranscriptionStep) => UNCHANGED ctrlVars]_vars

\* an event was dropped during the cooldown that follows a response
C3_Witness == lastOp = "dropped" /\ isProcessingQuery /\ cooldownTimers > 0

TimersCleared == settleTimers = {} /\ maxTimers = {}

\* C4 (as claimed): when a processQuery call has ended, for whatever reason,
\* both timers are cleared, isListeningToQuery and transcriptionStartTime
\* are reset and isProcessingQuery is false or about to be reset by the
\* cooldown timer.
C4_CleanedUpAfterProcessQuery ==
    lastOp \in {"agentReturned", "agentThrew", "fetchFailed", "fetchInvalid"} =>
        /\ TimersCleared
        /\ ~isListeningToQuery
        /\ transcriptionStartTime = 0
        /\ isProcessingQuery => cooldownTimers > 0

\* C5 (as claimed): after the empty-query path the controller is Idle: not
\* listening, not processing, no settle or max-listening timer pending,
\* transcriptionStartTime cleared.
C5_IdleAfterEmptyQuery ==
    lastOp = "emptyQuery" =>
        /\ ~isListeningToQuery
        /\ ~isProcessingQuery
        /\ TimersCleared
        /\ transcriptionStartTime = 0

C7_MaxTimerPendingWhileListening ==
    (isListeningToQuery /\ ~isProcessingQuery /\ calls = EmptyBag) => maxTimers # {}

Idle == ~isListeningToQuery /\ ~isProcessingQuery

TranscriptionOps == {"wake", "listen", "dropped", "ignored"}

\* C8 (as claimed): under fair timers and settling calls every listening
\* turn ends in Idle without a further transcription event: from a listening
\* state, Idle is reached unless another transcription event arrives first.
C8_EveryTurnEnds ==
    (isListeningToQuery /\ lastOp \notin TranscriptionOps) ~>
        (Idle \/ lastOp \in TranscriptionOps)

WakeWhileListening ==
    \E e \in Events :
        ContainsWakeWord(e.text) /\ isListeningToQuery /\ ~isProcessingQuery
        /\ HandleTranscription(e)

\* the turn-entry block did not run again, the settle timer was replaced
NoSecondTurn ==
    /\ UNCHANGED <<turn, cuePromises, cueChains, maxTimers, maxListeningTimeoutId, transcriptionStartTime,
                   locationVars, isListeningToQuery, isProcessingQuery, cooldownTimers,
                   calls, headVars, subVars, envVars, agentCalls>>
    /\ Cardinality(settleTimers') = 1
    /\ timeoutId' \in Ids(settleTimers')

\* C10 (as claimed): a wake word received while a turn is open starts no
\* second turn (no further max-listening timer, transcriptionStartTime kept,
\* turn entry not repeated) and only updates the display and replaces the
\* settle timer: in particular it leaves the photo entry and the photo
\* requests alone.
C10_OnlyDisplayAndSettleTimer ==
    [][WakeWhileListening => (NoSecondTurn /\ UNCHANGED photoVars)]_vars

\* the pending timers of one purpose are at most the one its field holds
LatestOnly(pending, field) ==
    Cardinality(pending) <= 1 /\ \A t \in pending : t.id = field

\* C11 (as claimed): at most one settle timer, one max-listening timer, one
\* head-window expiry timer and one cooldown timer is pending, and a pending
\* timer is the one most recently scheduled for its purpose.
C11_OneTimerPerPurpose ==
    /\ LatestOnly(settleTimers, timeoutId)
    /\ LatestOnly(maxTimers, maxListeningTimeoutId)
    /\ LatestOnly(headWindowTimers, headWindowTimeoutId)
    /\ cooldownTimers <= 1

\* inside a head-up window a later event of the turn replaced the settle timer
C11_Witness ==
    /\ lastOp = "listen"
    /\ settleTimers # {} /\ maxTimers # {} /\ headWindowTimers # {}

TimerFired == lastOp \in {"settleTimer", "maxTimer", "headWindowTimer", "cooldown"}

\* C12 (as claimed): once cleanup() has run no timer of the controller
\* fires, no agent invocation is started and no transcription subscription
\* of the controller is active.
C12_InertAfterCleanup ==
    [][/\ cleanedUp' => subscriptions' = {}
       /\ cleanedUp => (~TimerFired' /\ agentCalls' = agentCalls)]_vars

\* C13: with wake_requires_head_up enabled and the controller Idle, an event
\* containing a wake word that arrives while no head-up window is open
\* (none opened yet, or the latest one elapsed) changes no controller state.
C13_WakeOutsideWindowDropped ==
    [][\A e \in Events :
          (/\ wake_requires_head_up /\ Idle /\ ~withinHeadWindow
           /\ ContainsWakeWord(e.text)
           /\ HandleTranscription(e)) => UNCHANGED ctrlVars]_vars

\* an event was delivered and ignored while the controller was Idle and still
\* subscribed, gate enabled, the window elapsed: every event, with or
\* without a wake word, takes that same step
C13_Witness ==
    /\ lastOp = "ignored" /\ wake_requires_head_up /\ Idle
    /\ headWakeWindowUntilMs = "elapsed" /\ turn = 0

\* C14: the controller holds at most one active transcription subscription,
\* and an active handler is the one recorded in transcriptionUnsubscribe.
C14_OneSubscription ==
    /\ Cardinality(subscriptions) <= 1
    /\ subscriptions = IF transcriptionUnsubscribe = 0 THEN {}
                       ELSE {transcriptionUnsubscribe}

\* the setting was switched off inside an open turn: the controller was
\* subscribed already when ensureTranscriptionSubscribed ran
C14_Witness ==
    /\ lastOp = "settings" /\ ~wake_requires_head_up
    /\ isListeningToQuery /\ subscriptions # {}

\* C15 (as claimed): while wake_requires_head_up is disabled (the change
\* processed by initTranscriptionSubscription) the controller is subscribed
\* to the transcription stream, whatever timers were pending at the change.
C15_SubscribedWhileGateOff == ~wake_requires_head_up => subscriptions # {}

\* C16 (as claimed): with wake_requires_head_up enabled the controller is
\* subscribed exactly when a head-up window is open or a listening turn is in
\* progress.  Between the instant the window elapses and the run of its
\* expiry timer either is accepted.
C16_SubscribedIffWindowOrTurn ==
    wake_requires_head_up =>
        /\ subscriptions # {} => (headWakeWindowUntilMs # "zero" \/ isListeningToQuery)
        /\ (withinHeadWindow \/ isListeningToQuery) => subscriptions # {}

\* C17 (as claimed): at no time are two photo requests outstanding for the
\* session, however long a request takes to resolve or reject.
C17_OnePhotoRequestOutstanding == Cardinality(photoRequests) <= 1

PhotoWaiting ==
    BagCardinality([c \in {d \in DOMAIN calls : d.stage = "photo"} |-> calls[c]])

AgentInvoked(n) == \E t \in 1..MaxTurns : agentCalls'[t] = agentCalls[t] + n

\* C18 (as claimed): a non-empty query is dispatched to the agent whatever
\* the photo fetch does: the call that passed the guards either invokes the
\* agent at once or waits for the photo, and every call that leaves the photo
\* wait (photo resolved, 3 s elapsed, photo request failed) invokes the agent.
C18_DispatchedWhateverThePhoto ==
    [][/\ (lastOp' = "dispatch" /\ PhotoWaiting' = PhotoWaiting) => AgentInvoked(1)
       /\ PhotoWaiting' < PhotoWaiting => AgentInvoked(PhotoWaiting - PhotoWaiting')]_vars

\* C19: when the agent call throws, the fixed error message is rendered (once,
\* by that step), both timers are cleared, isListeningToQuery and
\* transcriptionStartTime are reset, and isProcessingQuery stays true until a
\* pending cooldown timer resets it.
C19_AgentErrorHandled ==
    /\ lastOp = "agentThrew" =>
          /\ display = "Sorry, there was an error processing your request."
          /\ TimersCleared
          /\ ~isListeningToQuery
          /\ transcriptionStartTime = 0
          /\ isProcessingQuery /\ cooldownTimers > 0
    /\ lastOp = "cooldown" => ~isProcessingQuery

\* the agent threw for the query of the second turn
C19_Witness == lastOp = "agentThrew" /\ turn = 2 /\ agentCalls[2] = 1

\* C20 (as claimed): no failure of a collaborator call reaches the host as
\* an uncaught exception or unhandled rejection, and a failed transcript
\* fetch or agent call ends in a rendered message and a reset controller.
C20_NoFailureEscapes ==
    /\ lastOp # "unhandledRejection"
    /\ lastOp \in {"fetchFailed", "fetchInvalid", "agentThrew"} =>
          /\ display # Nothing
          /\ ~isListeningToQuery
          /\ TimersCleared
          /\ transcriptionStartTime = 0

\* what the claim expects to be rendered for an agent result
Expected(result) ==
    CASE result \in {"null", "empty"} -> "Sorry, I couldn't find an answer to that."
      [] result = "takeover" -> Nothing
      [] OTHER -> "<agent response>"

\* C21: an empty or null agent result renders the fixed 'couldn't find an
\* answer' message, the take-over sentinel renders nothing, any other result
\* (plain text, JSON, JSON with an unrecognized event tag) is rendered as
\* text; none takes the error path.
C21_ResultRendering ==
    [][\A c \in DOMAIN calls, r \in AgentResults :
          AgentReturns(c, r) =>
              display' = Expected(r) /\ lastOp' = "agentReturned"]_vars

\* the agent returned the take-over sentinel and nothing was rendered
C21_Witness == lastOp = "agentReturned" /\ display = Nothing /\ turn = 1

\* C22 (as claimed): no processing-cue playback is started once the agent
\* call of its query has completed (returned or thrown), and a chain starts
\* at most five playbacks.
C22_NoCueAfterAgentCompleted ==
    [][/\ \A ch \in cueChains :
             (CueChainSettles(ch, "resolved") /\ lastOp' = "cueReplayed") => ch.live
       /\ \A ch \in cueChains' : ch.played <= MaxCuePlays]_vars

\* C23 (as claimed): however the turn-entry location lookup fails, the turn
\* goes on and the agent's location context has been set once the lookup has
\* settled (to fallback values for what could not be resolved).
C23_LocationContextAlwaysSet ==
    (turn > 0 /\ locationLookups = 0) => locationContext # "unset"

\* ---- the transcript processor (ProcessorSpec)
history == transcriptProcessor.finalTranscriptHistory

NonEmpty(text) == \E i \in DOMAIN text : text[i] \notin Whitespace

IsSuffix(s, t) == Len(s) <= Len(t) /\ s = SubSeq(t, Len(t) - Len(s) + 1, Len(t))

Smaller(a, b) == IF a <= b THEN a ELSE b

\* String.prototype.split("\n")
RECURSIVE LinesOf(_)
LinesOf(s) ==
    IF \A i \in DOMAIN s : s[i] # NL THEN <<s>>
    ELSE LET k == CHOOSE i \in DOMAIN s : s[i] = NL /\ \A j \in 1..(i - 1) : s[j] # NL
         IN  <<SubSeq(s, 1, k - 1)>> \o LinesOf(SubSeq(s, k + 1, Len(s)))

\* C24: from every state of the processor and for every text,
\* processString(text, false) leaves the finalized history as it was, and a
\* second call with the same text returns the same string and leaves the
\* same processor as the first.
C24_PartialIdempotent ==
    \A t \in InputTexts :
        LET once == processString(transcriptProcessor, t, FALSE)
            twice == processString(once, t, FALSE)
        IN  /\ once.finalTranscriptHistory = history
            /\ twice = once
            /\ Returned(twice) = Returned(once)

\* a partial text was processed on top of a non-empty history
C24_Witness ==
    /\ lastOp = "partial"
    /\ history # <<>>
    /\ transcriptProcessor.partialText # <<>>

\* C25: from every state and for every text, a final call (alone, or after a
\* non-final call with the same text) appends exactly one entry when the
\* text is not empty, the cap then dropping from the front, and none when it
\* is empty; it always leaves the partial text empty.
C25_FinalAppendsOne ==
    \A t \in InputTexts :
        LET alone == processString(transcriptProcessor, t, TRUE)
            after == processString(processString(transcriptProcessor, t, FALSE), t, TRUE)
            max == transcriptProcessor.maxFinalTranscripts
            Grown(h) ==
                IF NonEmpty(t)
                THEN /\ Len(h) = Smaller(Len(history) + 1, max)
                     /\ Len(h) > 0 =>
                            /\ NonEmpty(h[Len(h)])
                            /\ IsSuffix(SubSeq(h, 1, Len(h) - 1), history)
                ELSE h = history
        IN  /\ Grown(alone.finalTranscriptHistory)
            /\ Grown(after.finalTranscriptHistory)
            /\ alone.partialText = <<>>
            /\ after.partialText = <<>>

\* a final call has just stored the text the last non-final call carried,
\* and an empty final text had no effect before
C25_Witness ==
    /\ lastOp = "final"
    /\ finalTexts # <<>>
    /\ finalTexts[Len(finalTexts)] = transcriptProcessor.lastUserTranscript
    /\ history # <<>>
    /\ history[Len(history)] = transcriptProcessor.lastUserTranscript

\* C26: the finalized history never holds more than maxFinalTranscripts
\* entries, and it is the end of the sequence of the non-empty final texts
\* processed so far.
C26_HistoryCapped ==
    /\ Len(history) <= transcriptProcessor.maxFinalTranscripts
    /\ IsSuffix(history, finalTexts)

\* the cap has dropped the oldest of three different final texts
C26_Witness ==
    /\ Len(finalTexts) = 3
    /\ finalTexts[1] # finalTexts[2] /\ finalTexts[2] # finalTexts[3]
    /\ Len(history) = 2
    /\ transcriptProcessor.maxFinalTranscripts = 2

\* C27: the string processString returned has exactly maxLines lines, none
\* longer than maxCharsPerLine, and they are the last lines of the wrapped
\* text.
C27_DisplayWithinBudget ==
    lastOp \in {"partial", "final"} =>
        LET tp == transcriptProcessor
            lines == LinesOf(displayString)
            wrapped == wrapText(combinedText(history, tp.partialText, lastOp = "final"),
                                tp.maxCharsPerLine)
        IN  /\ Len(lines) = tp.maxLines
            /\ \A i \in DOMAIN lines : Len(lines[i]) <= tp.maxCharsPerLine
            /\ Len(wrapped) >= tp.maxLines =>
                   tp.currentDisplayLines =
                       SubSeq(wrapped, Len(wrapped) - tp.maxLines + 1, Len(wrapped))

\* ---- removeWakeWord (WakeWordSpec)
\* C28: removeWakeWord applied to its own result changes nothing.
C28_RemoveWakeWordIdempotent ==
    Len(removals) = 3 => removals[3] = removals[2]

\* ---- VoiceRecordingService (RecordingSpec)
\* C29: the steps of startRecording run in the order capture, Claude, save,
\* email; a failed step is the last one; the save needs a Claude result and
\* the email a successful save; the call ends by returning a result, and the
\* result reports success only after capture, extraction and save succeeded.
C29_PipelineInOrder ==
    LET r == recording
    IN  /\ r.steps = SubSeq(PipelineSteps, 1, Len(r.steps))
        /\ r.failedAt # "none" =>
               /\ r.steps[Len(r.steps)] = r.failedAt
               /\ r.stage = "returned"
               /\ ~r.result.success
        /\ (\E i \in DOMAIN r.steps : r.steps[i] = "save") =>
               r.transcription # "none" /\ r.claudeResult.extracted
        /\ r.saved => r.claudeResult.extracted
        /\ (\E i \in DOMAIN r.steps : r.steps[i] = "email") => r.saved
        /\ r.emailed => r.saved
        /\ r.stage \in {"idle", "returned"} \cup {PipelineSteps[i] : i \in 1..4}
        /\ (r.stage = "returned" /\ r.result.success) =>
               /\ r.transcription # "none"
               /\ r.claudeResult.extracted
               /\ r.saved
               /\ r.failedAt = "none"

\* the call reported success although the follow-up email was not sent
C29_Witness ==
    /\ recording.stage = "returned"
    /\ recording.result.success
    /\ ~recording.emailed
    /\ recording.saved

\* ---- the settle timer (Spec)
ExpectedSettle(e) ==
    IF ~e.isFinal THEN 3000
    ELSE IF e.text[Len(e.text)] = W THEN 10000
    ELSE 1500

\* C30: a handled transcription event leaves exactly one settle timer
\* pending, the one it scheduled, with the duration its finality and its
\* ending call for; a settle timer that fires is the one the last handled
\* event scheduled, and it starts a processQuery call.
C30_SettleTimerReset ==
    [][/\ \A e \in Events :
              (HandleTranscription(e) /\ lastOp' \in {"wake", "listen"}) =>
                  \E t \in settleTimers' :
                      /\ settleTimers' = {t}
                      /\ t.id = timeoutId'
                      /\ t.dur = ExpectedSettle(e)
       /\ \A t \in settleTimers :
              SettleTimerFires(t) =>
                  /\ t.id = timeoutId
                  /\ \E c \in DOMAIN calls' :
                         /\ c.turn = t.turn /\ c.stage = "fetch"
                         /\ CopiesIn(c, calls') = CopiesIn(c, calls) + 1]_vars

\* while listening, a final event that ends with the wake word has replaced
\* the pending timer by one of 10 s
C30_Witness ==
    /\ lastOp = "listen"
    /\ \E t \in settleTimers : t.id = timeoutId /\ t.dur = SettleLong

\* ---- the replay duration
\* lines 961-967: Math.max(1, Math.ceil(ms / 1000))
durationSeconds(ms) ==
    LET ceil == IF ms % 1000 = 0 THEN ms \div 1000 ELSE ms \div 1000 + 1
    IN  IF 1 >= ceil THEN 1 ELSE ceil

ElapsedSamples == {0, 1, 999, 1000, 1001, 2500, 10000, 15000}

\* C31: a turn is open exactly while its start time is recorded; every
\* processQuery call in flight took its duration from the start time, the
\* timer that starts one finds the start time of its own, current turn, and
\* the duration requested is the elapsed time in whole seconds, rounded up,
\* and at least 1.
C31_DurationFromTurnStart ==
    /\ [](isListeningToQuery <=> transcriptionStartTime # 0)
    /\ [](\A c \in DOMAIN calls : c.dur = "elapsed")
    /\ [](\A ms \in ElapsedSamples :
              /\ durationSeconds(ms) >= 1
              /\ durationSeconds(ms) * 1000 >= ms
              /\ ms > 1000 => (durationSeconds(ms) - 1) * 1000 < ms)
    /\ [][/\ \A t \in settleTimers :
                SettleTimerFires(t) =>
                    transcriptionStartTime = t.turn /\ t.turn = turn
          /\ \A t \in maxTimers :
                MaxListeningTimerFires(t) =>
                    transcriptionStartTime = t.turn /\ t.turn = turn]_vars

\* a call started by the maximum-listening timer is in flight
C31_Witness ==
    /\ lastOp = "maxTimer"
    /\ isListeningToQuery
    /\ \E c \in DOMAIN calls : c.dur = "elapsed" /\ c.turn = turn

\* C35: outside a listening turn no settle timer and no maximum-listening
\* timer is pending.
C35_NoTimerOutsideTurn ==
    ~isListeningToQuery => (settleTimers = {} /\ maxTimers = {})

\* the finally block has just closed a turn and cleared its timers
C35_Witness ==
    /\ ~isListeningToQuery
    /\ turn > 0
    /\ timeoutId = 0
    /\ lastOp \in {"agentReturned", "agentThrew"}

\* ---- the head-up window (GateSpec)
HeadPositions == {"up", "down"}

DownToUp(h) == wake_requires_head_up /\ lastHeadPosition = "down" /\ h = "up"

\* C32: a window opens only in a head-position event that goes from down to
\* up while the gate is enabled; that event leaves one expiry timer pending,
\* the one it scheduled; every other head-position event leaves the window
\* and its timer as they were.
C32_WindowOnlyOnDownToUp ==
    [][/\ (headWakeWindowUntilMs' = "open" /\ headWakeWindowUntilMs # "open") =>
              /\ lastOp' = "headPosition"
              /\ DownToUp(lastHeadPosition')
       /\ \A h \in HeadPositions :
              HandleHeadPosition(h) =>
                  IF DownToUp(h)
                  THEN /\ headWakeWindowUntilMs' = "open"
                       /\ \E t \in headWindowTimers' :
                              headWindowTimers' = {t} /\ t.id = headWindowTimeoutId'
                  ELSE UNCHANGED <<headWakeWindowUntilMs, headWindowTimeoutId,
                                   headWindowTimers>>]_vars

\* a down-to-up event has opened a window
C32_Witness ==
    /\ lastOp = "headPosition"
    /\ wake_requires_head_up
    /\ lastHeadPosition = "up"
    /\ headWakeWindowUntilMs = "open"
    /\ headWindowTimers # {}

\* ---- clear() (ClearSpec)
\* C33: a cleared processor and a new one with the same limits, given the
\* same calls, return the same display string and hold the same finalized
\* history and the same last user transcript.
C33_ClearedLikeNew ==
    /\ transcriptProcessor.finalTranscriptHistory = fresh.finalTranscriptHistory
    /\ transcriptProcessor.lastUserTranscript = fresh.lastUserTranscript
    /\ lastOp \in {"partial", "final"} => displayString = Returned(fresh)

\* ---- the subscription during a turn (GateSpec)
\* C34: while a listening turn is open the controller holds its
\* subscription to the transcription stream.
C34_SubscribedWhileListening ==
    isListeningToQuery =>
        /\ transcriptionUnsubscribe # 0
        /\ transcriptionUnsubscribe \in subscriptions

\* the head-window expiry timer ran during a listening turn
C34_Witness ==
    /\ lastOp = "headWindowTimer"
    /\ isListeningToQuery
    /\ wake_requires_head_up
    /\ transcriptionUnsubscribe \in subscriptions

\* how many records of the storage file are session s
SavedCount(s) ==
    Cardinality({i \in DOMAIN conversation.sessions : conversation.sessions[i].session = s})

\* the last event handed to handleTranscription was a final one with an end phrase
EndPhraseArrived ==
    /\ heard # <<>>
    /\ heard[Len(heard)].isFinal
    /\ checkForEndWakeWord(trim(heard[Len(heard)].text))

ExpectedSegments(s) ==
    LET Recorded(h) ==
            /\ h.session = s
            /\ \E i \in DOMAIN h.text : h.text[i] \notin Whitespace
            /\ ~(h.isFinal /\ checkForEndWakeWord(h.text))
        kept == SelectSeq(heard, Recorded)
    IN  [i \in DOMAIN kept |-> [text |-> trim(kept[i].text), isFinal |-> kept[i].isFinal]]

\* C37: the segments of every saved session are exactly the non-empty events
\* handed to handleTranscription while that session was open, in arrival
\* order, without the final event that carried the end phrase; a non-final
\* event with the phrase is a segment like any other and leaves the session
\* open; an event arriving while no session is open changes nothing.
C37_SegmentsAreTheEvents ==
    /\ [](\A i \in DOMAIN conversation.sessions :
              conversation.sessions[i].segments =
                  ExpectedSegments(conversation.sessions[i].session))
    /\ [](conversation.isRecording =>
              /\ conversation.conversationSegments =
                     ExpectedSegments(conversation.currentSession)
              /\ conversation.sessionSegments = conversation.conversationSegments)
    /\ [][(lastOp' = "conversationTranscription" /\ conversation.isRecording
              /\ ~conversation'.isRecording) => EndPhraseArrived']_vars
    /\ [][(lastOp' = "conversationTranscription" /\ ~conversation.isRecording) =>
              conversation' = conversation]_vars

\* a session ended by a final end phrase was saved with the earlier non-final
\* end phrase as a segment, after an empty event that left no segment
C37_Witness ==
    /\ lastOp = "conversationTranscription"
    /\ EndPhraseArrived
    /\ ~conversation.isRecording
    /\ Len(conversation.sessions) = 1
    /\ Len(conversation.sessions[1].segments) = 1
    /\ ~conversation.sessions[1].segments[1].isFinal
    /\ checkForEndWakeWord(conversation.sessions[1].segments[1].text)
    /\ \E i \in DOMAIN heard : heard[i].session = 1 /\ trim(heard[i].text) = <<>>

\* C38: no user ever has more than one voice-recording pipeline in flight.
C38_OnePipelinePerUser ==
    \A u \in Users : voice[u].pipelines <= 1

====
